---- MODULE Spec2Model ----
(***************************************************************************)
(* The recording path of rosbag2: rosbag2::Writer and its helpers.         *)
(*                                                                         *)
(* The sources hold three revisions of rosbag2::Writer.  The variable      *)
(* impl says which revision a behaviour runs:                              *)
(*   PoC   src/unnamed/part_000                      (CompressionOptions,  *)
(*         CompressorPoC, metadata_ kept in the Writer)                    *)
(*   Cnt   src/rosbag2/src/rosbag2/writer.cpp        (message_count_,      *)
(*         bagfile_counter_, Compressor with a compression state)          *)
(*   Agg   src/rosbag2/src/rosbag2/compression_options.cpp, second half    *)
(*         (aggregate_metadata_ over the storage's per-file metadata)      *)
(* The storage backend, its factory, the converter, the compressor and the *)
(* metadata writer are collaborators: their answers are inputs of the      *)
(* actions, their calls are recorded in last.calls.                        *)
(***************************************************************************)
EXTENDS Integers, Sequences, FiniteSets, TLC

VARIABLES
  impl,                  \* which revision of Writer runs
  pc,                    \* "alive", "destroyed", "crashed", "terminated"
  storage_,              \* Writer::storage_ : NULL or a handle
  converter_,            \* Writer::converter_ != nullptr
  max_bagfile_size_,     \* Writer::max_bagfile_size_
  base_folder_,          \* PoC: Writer::base_folder_
  compression_options_,  \* PoC: Writer::compression_options_.mode
  topics_names_to_info_, \* PoC: topic name -> message_count
  metadata_,             \* PoC, Agg: Writer::metadata_
  uri_,                  \* Cnt, Agg: Writer::uri_
  topics_,               \* Cnt: topic name -> message_count
  topic_metadata_,       \* Cnt: topic name -> the name in its topic_metadata
  relative_file_paths_,  \* Cnt
  message_count_,        \* Cnt
  bagfile_counter_,      \* Cnt
  start_time_,           \* Cnt
  end_time_,             \* Cnt
  backend,               \* Agg: what the storage knows about its files
  opened,                \* uris given to open_read_write since the last open()
  st_topics,             \* topics created on the handle storage_ holds
  deleted,               \* files removed from disk by std::remove
  persisted,             \* what write_metadata received, or NotPersisted
  accepted,              \* write() calls of this session that returned normally
  stamps,                \* time stamps of the messages of this session the storage took
  formats_differ,        \* whether the formats given to the last open() differ
  ncalls,                \* open() and write() calls made (bounds the model)
  last                   \* the last operation: name, inputs, outcome, calls made

vars == <<impl, pc, storage_, converter_, max_bagfile_size_, base_folder_,
          compression_options_, topics_names_to_info_, metadata_, uri_, topics_,
          topic_metadata_, relative_file_paths_, message_count_, bagfile_counter_, start_time_,
          end_time_, backend, opened, st_topics, deleted, persisted, accepted, stamps,
          formats_differ, ncalls, last>>

\* The private state of each revision, and the collaborators' observable state.
varsPoC == <<base_folder_, compression_options_, topics_names_to_info_>>
varsCnt == <<topics_, topic_metadata_, relative_file_paths_, message_count_,
             bagfile_counter_,
             start_time_, end_time_>>
varsAgg == <<backend>>

----------------------------------------------------------------------------
\* Bounds of the model.
MaxCalls == 3
MaxTime == 2
TimeBits == 8

PoC == "part_000"
Cnt == "writer.cpp"
Agg == "compression_options.cpp"
Impls == {PoC, Cnt, Agg}

Topics == {"/a", "/b"}
Times == {1, MaxTime}
\* enum class CompressionMode
ModeNONE == "CompressionMode::NONE"
ModeFILE == "CompressionMode::FILE"
ModeMESSAGE == "CompressionMode::MESSAGE"
Modes == {ModeNONE, ModeFILE, ModeMESSAGE}

\* rosbag2_storage::storage_interfaces::MAX_BAGFILE_SIZE_NO_SPLIT
MAX_BAGFILE_SIZE_NO_SPLIT == 0
\* The threshold written into should_split_bagfile: 1024 * 100.
HardcodedSplitSize == 1024 * 100
\* A threshold a caller configures (the spec's scenario uses 100 bytes).
ConfiguredSplitSize == 100
\* File sizes the storage reports: at the configured threshold, just above it,
\* and above the hard-coded one.
Sizes == {ConfiguredSplitSize, ConfiguredSplitSize + 1, HardcodedSplitSize + 1}

\* The options open() is called with: the split size, whether the input and
\* output serialization formats differ, and the compression mode ("keep" is the
\* overload without CompressionOptions).  Each option is varied on its own.
Options(max_size, formatsDiffer, mode) ==
  [max_bagfile_size |-> max_size, formatsDiffer |-> formatsDiffer, mode |-> mode]
OpenOptions ==
  { Options(MAX_BAGFILE_SIZE_NO_SPLIT, FALSE, "keep"),
    Options(ConfiguredSplitSize, FALSE, "keep"),
    Options(MAX_BAGFILE_SIZE_NO_SPLIT, TRUE, "keep"),
    Options(MAX_BAGFILE_SIZE_NO_SPLIT, FALSE, ModeFILE),
    Options(MAX_BAGFILE_SIZE_NO_SPLIT, FALSE, ModeMESSAGE) }

\* std::chrono::nanoseconds::max() / min(), INT64_MAX / INT64_MIN, at the
\* model's integer width.
TimeMaxValue == 2 ^ (TimeBits - 1) - 1
TimeMinValue == - (2 ^ (TimeBits - 1))
\* Two's-complement wrap of a difference at the model's integer width.
Wrap(x) == ((x + 2 ^ (TimeBits - 1)) % (2 ^ TimeBits)) - 2 ^ (TimeBits - 1)

Min(a, b) == IF b < a THEN b ELSE a
Max(a, b) == IF a < b THEN b ELSE a

\* Which collaborator of write() throws: none, the converter, the per-message
\* compressor or the storage's write.
WriteFailures == {"none", "convert", "compress", "write"}
\* What reading through a null storage_ does.
NullOutcomes == {"crash", "garbage"}

\* The values an input is drawn from: all of them when the handler reads it on
\* the path taken, one default otherwise, so that one call is one transition.
SizesRead(read) == IF read THEN Sizes ELSE {ConfiguredSplitSize}
TimesRead(read) == IF read THEN Times ELSE {1}
Answers(asked) == IF asked THEN BOOLEAN ELSE {TRUE}
FailuresRead(read, converts, compresses) ==
  IF ~read THEN {"none"}
  ELSE {"none", "write"} \cup (IF converts THEN {"convert"} ELSE {})
                         \cup (IF compresses THEN {"compress"} ELSE {})
NullOutcomesRead(read) == IF read THEN NullOutcomes ELSE {"crash"}

NULL == [null |-> TRUE]
NotPersisted == [written |-> FALSE]
BagUri == "bag"

----------------------------------------------------------------------------
\* Paths.  A path is the folder, the numeric suffix ("_<n>", 0 for none) and
\* the extensions appended to it.
Path(folder, suffix, ext) == [folder |-> folder, suffix |-> suffix, ext |-> ext]

\* format_storage_uri: the counter is appended only when it is > 0.
format_storage_uri(base_folder, storage_count) ==
  Path(base_folder, IF storage_count > 0 THEN storage_count ELSE 0, <<>>)

\* The storage handle opened on a uri.
Handle(uri) == [uri |-> uri]

\* storage_->get_relative_path(): the file the handle was opened on, with the
\* storage's extension.
get_relative_path(h) == [h.uri EXCEPT !.ext = Append(@, "db3")]

\* compressor_->compress_uri(uri): the path with the compressed extension.
compress_uri(uri) == [uri EXCEPT !.ext = Append(@, "compressed")]

\* What a read through a null storage_ can yield when it does not crash.
GarbagePath == Path("?", 0, <<>>)

\* The default-constructed rosbag2_storage::BagMetadata.
EmptyMap == [x \in {} |-> 0]
EmptyMetadata ==
  [relative_file_paths |-> <<>>, starting_time |-> 0, duration |-> 0,
   message_count |-> 0, topics_with_message_count |-> EmptyMap,
   compression_format |-> "", compression_mode |-> ""]

Range(s) == {s[i] : i \in 1..Len(s)}
NoDuplicates(s) == \A i, j \in 1..Len(s) : s[i] = s[j] => i = j

RECURSIVE SumOver(_, _)
SumOver(f, S) ==
  IF S = {} THEN 0
  ELSE LET x == CHOOSE y \in S : TRUE IN f[x] + SumOver(f, S \ {x})
SumCounts(f) == SumOver(f, DOMAIN f)

Inc(f, t) == [f EXCEPT ![t] = @ + 1]
WithTopic(f, t) == [x \in DOMAIN f \cup {t} |-> IF x \in DOMAIN f THEN f[x] ELSE 0]
WithoutTopic(f, t) == [x \in DOMAIN f \ {t} |-> f[x]]

\* The name a default-constructed TopicMetadata carries.
DefaultTopicMetadata == ""
\* std::map insertion of a topic_metadata under a key: an entry that exists
\* is kept as it is.
WithMetadata(f, t, md) ==
  [x \in DOMAIN f \cup {t} |-> IF x \in DOMAIN f THEN f[x] ELSE md]

\* The record of an operation: its name, how it returned ("ok" or the error
\* thrown), the collaborator calls it made in order, and for write() the topic,
\* the file size the storage reported and whether split_bagfile ran.
Op(name, result, calls, topic, size, split) ==
  [op |-> name, result |-> result, calls |-> calls, topic |-> topic,
   size |-> size, split |-> split]
NoOp == Op("none", "ok", <<>>, "", 0, FALSE)

----------------------------------------------------------------------------
\* The end of ~Writer with the two resets exchanged.
reset_factory_then_storage == <<"factory.reset", "storage.reset">>

\* The end of ~Writer, the same two statements in the three revisions:
\* storage_.reset() and then storage_factory_.reset().
reset_storage_then_factory == <<"storage.reset", "factory.reset">>

----------------------------------------------------------------------------
\* Revision PoC (src/unnamed/part_000).

\* compression_mode_to_string reduced to its default branch.
compression_mode_to_string_default(compression_mode) == "NONE"

\* compression_mode_to_string / CompressionModeToStringMap
compression_mode_to_string(compression_mode) ==
  CASE compression_mode = ModeNONE -> "NONE"
    [] compression_mode = ModeFILE -> "FILE"
    [] compression_mode = ModeMESSAGE -> "MESSAGE"
    [] OTHER -> "NONE"

\* compressor_->get_compression_identifier()
CompressionIdentifier == "poc"

\* Writer::should_split_bagfile: the configured size is not read.
should_split_bagfile(size) == size > HardcodedSplitSize

\* Writer::init_metadata
init_metadata == [EmptyMetadata EXCEPT !.starting_time = TimeMaxValue]

\* Writer::compress_file, given whether compress_uri returned (ok) or threw.
\* Returns the file list, the files deleted and the calls made.
compress_file(files, del, uri_to_compress, comprOk) ==
  IF comprOk
  THEN [ok |-> TRUE,
        files |-> Append(files, compress_uri(uri_to_compress)),
        deleted |-> del \cup {uri_to_compress},
        calls |-> <<"compressor.compress_uri", "std::remove">>]
  ELSE [ok |-> FALSE, files |-> files, deleted |-> del,
        calls |-> <<"compressor.compress_uri (failed)">>]

\* Writer::split_bagfile, given the registry as write() left it, whether the
\* factory could open the new storage and whether compress_uri returned.
split_bagfile(topics, factoryOk, comprOk) ==
  LET current_uri == get_relative_path(storage_)
      storage_uri_rollover ==
        format_storage_uri(base_folder_, Len(metadata_.relative_file_paths))
      c0 == <<"storage.get_relative_path", "factory.open_read_write">>
      c1 == c0 \o [i \in 1..Cardinality(DOMAIN topics) |-> "storage.create_topic"]
      cf == compress_file(metadata_.relative_file_paths, deleted, current_uri, comprOk)
  IN  IF ~factoryOk
      THEN [result |-> "storage_init", storage |-> NULL, uri |-> storage_uri_rollover,
            files |-> metadata_.relative_file_paths, deleted |-> deleted,
            st_topics |-> {}, calls |-> c0]
      ELSE IF compression_options_ = ModeFILE
      THEN [result |-> IF cf.ok THEN "ok" ELSE "compression",
            storage |-> Handle(storage_uri_rollover), uri |-> storage_uri_rollover,
            files |-> cf.files, deleted |-> cf.deleted,
            st_topics |-> DOMAIN topics, calls |-> c1 \o cf.calls]
      ELSE [result |-> "ok",
            storage |-> Handle(storage_uri_rollover), uri |-> storage_uri_rollover,
            files |-> Append(metadata_.relative_file_paths, current_uri),
            deleted |-> deleted, st_topics |-> DOMAIN topics, calls |-> c1]

\* Writer::open (both overloads: cm is the mode of the CompressionOptions given,
\* or "keep" for the overload without them).
PoC_open(max_size, formatsDiffer, cm, factoryOk) ==
  /\ impl = PoC /\ pc = "alive" /\ ncalls < MaxCalls
  /\ ncalls' = ncalls + 1
  /\ compression_options_' = IF cm = "keep" THEN compression_options_ ELSE cm
  /\ max_bagfile_size_' = max_size
  /\ base_folder_' = BagUri
  /\ converter_' = (converter_ \/ formatsDiffer)
  /\ opened' = <<format_storage_uri(BagUri, 0)>>
  /\ IF factoryOk
     THEN /\ storage_' = Handle(format_storage_uri(BagUri, 0))
          /\ metadata_' = init_metadata
          /\ last' = Op("open", "ok", <<"factory.open_read_write">>, "", 0, FALSE)
     ELSE /\ storage_' = NULL
          /\ metadata_' = metadata_
          /\ last' = Op("open", "storage_init", <<"factory.open_read_write">>, "", 0, FALSE)
  /\ st_topics' = {}
  /\ accepted' = 0
  /\ stamps' = {}
  /\ formats_differ' = formatsDiffer
  /\ UNCHANGED <<impl, pc, topics_names_to_info_, uri_, varsCnt, varsAgg, deleted,
                 persisted>>

\* Writer::create_topic
PoC_create_topic(name) ==
  /\ impl = PoC /\ pc = "alive"
  /\ IF storage_ = NULL
     THEN /\ last' = Op("create_topic", "not_open", <<>>, name, 0, FALSE)
          /\ UNCHANGED <<topics_names_to_info_, st_topics>>
     ELSE LET c0 == IF converter_ THEN <<"converter.add_topic">> ELSE <<>>
          IN  IF name \notin DOMAIN topics_names_to_info_
              THEN /\ topics_names_to_info_' = WithTopic(topics_names_to_info_, name)
                   /\ st_topics' = st_topics \cup {name}
                   /\ last' = Op("create_topic", "ok",
                                 c0 \o <<"storage.create_topic">>, name, 0, FALSE)
              ELSE /\ last' = Op("create_topic", "ok", c0, name, 0, FALSE)
                   /\ UNCHANGED <<topics_names_to_info_, st_topics>>
  /\ UNCHANGED <<impl, formats_differ,
                 pc, storage_, converter_, max_bagfile_size_, base_folder_,
                 compression_options_, metadata_, uri_, varsCnt, varsAgg, opened,
                 deleted, persisted, accepted, stamps, ncalls>>

\* Writer::remove_topic without its check of storage_.
PoC_remove_topic_unchecked(name) ==
  /\ impl = PoC /\ pc = "alive"
  /\ IF name \in DOMAIN topics_names_to_info_
     THEN /\ topics_names_to_info_' = WithoutTopic(topics_names_to_info_, name)
          /\ st_topics' = st_topics \ {name}
          /\ last' = Op("remove_topic", "ok", <<"storage.remove_topic">>,
                        name, 0, FALSE)
     ELSE /\ last' = Op("remove_topic", "unknown_topic", <<>>, name, 0, FALSE)
          /\ UNCHANGED <<topics_names_to_info_, st_topics>>
  /\ UNCHANGED <<impl, formats_differ,
                 pc, storage_, converter_, max_bagfile_size_, base_folder_,
                 compression_options_, metadata_, uri_, varsCnt, varsAgg, opened,
                 deleted, persisted, accepted, stamps, ncalls>>

\* Writer::remove_topic
PoC_remove_topic(name) ==
  /\ impl = PoC /\ pc = "alive"
  /\ IF storage_ = NULL
     THEN /\ last' = Op("remove_topic", "not_open", <<>>, name, 0, FALSE)
          /\ UNCHANGED <<topics_names_to_info_, st_topics>>
     ELSE IF name \in DOMAIN topics_names_to_info_
          THEN /\ topics_names_to_info_' = WithoutTopic(topics_names_to_info_, name)
               /\ st_topics' = st_topics \ {name}
               /\ last' = Op("remove_topic", "ok", <<"storage.remove_topic">>,
                             name, 0, FALSE)
          ELSE /\ last' = Op("remove_topic", "unknown_topic", <<>>, name, 0, FALSE)
               /\ UNCHANGED <<topics_names_to_info_, st_topics>>
  /\ UNCHANGED <<impl, formats_differ,
                 pc, storage_, converter_, max_bagfile_size_, base_folder_,
                 compression_options_, metadata_, uri_, varsCnt, varsAgg, opened,
                 deleted, persisted, accepted, stamps, ncalls>>

\* The part of write() after the rollover with the per-message compression
\* left out in every mode.
write_tail_uncompressed(perMessage, wfail) ==
  LET c1 == IF converter_ THEN <<"converter.convert">> ELSE <<>>
  IN  IF converter_ /\ wfail = "convert"
      THEN [result |-> "convert_error", calls |-> c1]
      ELSE IF wfail = "write"
      THEN [result |-> "storage_write_error", calls |-> c1 \o <<"storage.write">>]
      ELSE [result |-> "ok", calls |-> c1 \o <<"storage.write">>]

\* The part of write() after the rollover: conversion, per-message compression
\* and the storage's write.  wfail names the collaborator that throws, if any.
\* perMessage: whether compress_bag_message_data is on the path.
write_tail(perMessage, wfail) ==
  LET c1 == IF converter_ THEN <<"converter.convert">> ELSE <<>>
      c2 == IF perMessage THEN <<"compressor.compress_bag_message_data">> ELSE <<>>
  IN  IF converter_ /\ wfail = "convert"
      THEN [result |-> "convert_error", calls |-> c1]
      ELSE IF perMessage /\ wfail = "compress"
      THEN [result |-> "compression", calls |-> c1 \o c2]
      ELSE IF wfail = "write"
      THEN [result |-> "storage_write_error",
            calls |-> c1 \o c2 \o <<"storage.write">>]
      ELSE [result |-> "ok", calls |-> c1 \o c2 \o <<"storage.write">>]

\* Writer::write
PoC_write(name, time_stamp, size, factoryOk, comprOk, wfail) ==
  /\ impl = PoC /\ pc = "alive"
  /\ IF storage_ = NULL
     THEN /\ last' = Op("write", "not_open", <<>>, name, 0, FALSE)
          /\ UNCHANGED <<storage_, topics_names_to_info_, metadata_, opened,
                         st_topics, deleted, accepted, stamps, ncalls>>
     ELSE IF name \notin DOMAIN topics_names_to_info_
     THEN \* topics_names_to_info_.at() throws std::out_of_range
          /\ last' = Op("write", "unknown_topic", <<>>, name, 0, FALSE)
          /\ UNCHANGED <<storage_, topics_names_to_info_, metadata_, opened,
                         st_topics, deleted, accepted, stamps, ncalls>>
     ELSE
       LET topics == Inc(topics_names_to_info_, name)
           split == should_split_bagfile(size)
           sp == split_bagfile(topics, factoryOk, comprOk)
           c0 == <<"storage.get_bagfile_size">>
           wt == write_tail(compression_options_ = ModeMESSAGE, wfail)
           start == Min(metadata_.starting_time, time_stamp)
           files == IF split THEN sp.files ELSE metadata_.relative_file_paths
       IN  /\ ncalls < MaxCalls
           /\ ncalls' = ncalls + 1
           /\ topics_names_to_info_' = topics
           /\ IF split
              THEN /\ storage_' = sp.storage
                   /\ opened' = Append(opened, sp.uri)
                   /\ st_topics' = sp.st_topics
                   /\ deleted' = sp.deleted
              ELSE UNCHANGED <<storage_, opened, st_topics, deleted>>
           /\ IF split /\ sp.result # "ok"
              THEN /\ metadata_' = [metadata_ EXCEPT !.relative_file_paths = files]
                   /\ accepted' = accepted
                   /\ stamps' = stamps
                   /\ last' = Op("write", sp.result, c0 \o sp.calls, name, size, TRUE)
              ELSE /\ metadata_' =
                        [metadata_ EXCEPT
                           !.relative_file_paths = files,
                           !.starting_time = start,
                           !.duration = Max(@, time_stamp - start)]
                   /\ accepted' = IF wt.result = "ok" THEN accepted + 1 ELSE accepted
                   /\ stamps' = IF wt.result = "ok" THEN stamps \cup {time_stamp} ELSE stamps
                   /\ last' = Op("write", wt.result,
                                 c0 \o (IF split THEN sp.calls ELSE <<>>) \o wt.calls,
                                 name, size, split)
  /\ UNCHANGED <<impl, formats_differ,
                 pc, converter_, max_bagfile_size_, base_folder_,
                 compression_options_, uri_, varsCnt, varsAgg, persisted>>

\* Writer::finalize_metadata (bag_size, read from the disk, is left out)
finalize_metadata(md) ==
  [md EXCEPT !.topics_with_message_count = topics_names_to_info_,
             !.message_count = SumCounts(topics_names_to_info_),
             !.compression_format = CompressionIdentifier,
             !.compression_mode = compression_mode_to_string(compression_options_)]

\* Writer::~Writer.  With storage_ null the first statement reads through a
\* null pointer: the process crashes, or the read yields some path (nullOutcome).
PoC_destroy(comprOk, nullOutcome) ==
  /\ impl = PoC /\ pc = "alive"
  /\ IF storage_ = NULL /\ nullOutcome = "crash"
     THEN /\ pc' = "crashed"
          /\ last' = Op("destroy", "crash", <<"storage.get_relative_path">>, "", 0, FALSE)
          /\ UNCHANGED <<storage_, metadata_, deleted, persisted>>
     ELSE
       LET current_uri == IF storage_ = NULL THEN GarbagePath
                          ELSE get_relative_path(storage_)
           cf == compress_file(metadata_.relative_file_paths, deleted, current_uri, comprOk)
           c0 == <<"storage.get_relative_path">>
           fileMode == compression_options_ = ModeFILE
           md == [metadata_ EXCEPT !.relative_file_paths =
                    IF fileMode THEN cf.files ELSE Append(@, current_uri)]
           c1 == c0 \o (IF fileMode THEN cf.calls ELSE <<>>)
       IN  IF fileMode /\ ~cf.ok
           THEN \* an exception leaves the destructor: std::terminate
                /\ pc' = "terminated"
                /\ last' = Op("destroy", "terminate", c1, "", 0, FALSE)
                /\ UNCHANGED <<storage_, metadata_, deleted, persisted>>
           ELSE /\ pc' = "destroyed"
                /\ deleted' = IF fileMode THEN cf.deleted ELSE deleted
                /\ storage_' = NULL
                /\ IF base_folder_ # ""
                   THEN /\ metadata_' = finalize_metadata(md)
                        /\ persisted' = [written |-> TRUE, metadata |-> metadata_']
                        /\ last' = Op("destroy", "ok",
                                      c1 \o <<"metadata_io.write_metadata">>
                                         \o reset_storage_then_factory,
                                      "", 0, FALSE)
                   ELSE /\ metadata_' = md
                        /\ persisted' = persisted
                        /\ last' = Op("destroy", "ok",
                                      c1 \o reset_storage_then_factory,
                                      "", 0, FALSE)
  /\ UNCHANGED <<impl, formats_differ,
                 converter_, max_bagfile_size_, base_folder_,
                 compression_options_, topics_names_to_info_, uri_, varsCnt, varsAgg,
                 opened, st_topics, accepted, stamps, ncalls>>

----------------------------------------------------------------------------
\* Revision Cnt (src/rosbag2/src/rosbag2/writer.cpp).

\* Writer::next_bagfile_uri_: the uri named by the counter, and the counter
\* incremented.
next_bagfile_uri_(uri, counter) ==
  [uri |-> Path(uri, IF counter > 0 THEN counter ELSE 0, <<>>),
   bagfile_counter |-> counter + 1]

\* storage_factory_->get_current_uri(): the file the factory opened last.
get_current_uri(h) == [h.uri EXCEPT !.ext = Append(@, "db3")]

\* Writer::open
Cnt_open(max_size, formatsDiffer, factoryOk) ==
  LET nx == next_bagfile_uri_(BagUri, bagfile_counter_) IN
  /\ impl = Cnt /\ pc = "alive" /\ ncalls < MaxCalls
  /\ ncalls' = ncalls + 1
  /\ uri_' = BagUri
  /\ max_bagfile_size_' = max_size
  /\ converter_' = (converter_ \/ formatsDiffer)
  /\ bagfile_counter_' = nx.bagfile_counter
  /\ opened' = <<nx.uri>>
  /\ IF factoryOk
     THEN /\ storage_' = Handle(nx.uri)
          /\ start_time_' = TimeMaxValue
          /\ end_time_' = TimeMinValue
          /\ last' = Op("open", "ok", <<"factory.open_read_write">>, "", 0, FALSE)
     ELSE /\ storage_' = NULL
          /\ UNCHANGED <<start_time_, end_time_>>
          /\ last' = Op("open", "storage_init", <<"factory.open_read_write">>, "", 0, FALSE)
  /\ st_topics' = {}
  /\ accepted' = 0
  /\ stamps' = {}
  /\ formats_differ' = formatsDiffer
  /\ UNCHANGED <<impl, pc, varsPoC, metadata_, topics_, topic_metadata_,
                 relative_file_paths_, message_count_, varsAgg, deleted, persisted>>

\* Writer::create_topic
Cnt_create_topic(name) ==
  /\ impl = Cnt /\ pc = "alive"
  /\ IF storage_ = NULL
     THEN /\ last' = Op("create_topic", "not_open", <<>>, name, 0, FALSE)
          /\ UNCHANGED <<topics_, topic_metadata_, st_topics>>
     ELSE /\ topics_' = WithTopic(topics_, name)
          /\ topic_metadata_' = WithMetadata(topic_metadata_, name, name)
          /\ st_topics' = st_topics \cup {name}
          /\ last' = Op("create_topic", "ok",
                        (IF converter_ THEN <<"converter.add_topic">> ELSE <<>>)
                          \o <<"storage.create_topic">>, name, 0, FALSE)
  /\ UNCHANGED <<impl, formats_differ,
                 pc, storage_, converter_, max_bagfile_size_, varsPoC, metadata_,
                 uri_, relative_file_paths_, message_count_, bagfile_counter_,
                 start_time_, end_time_, varsAgg, opened, deleted, persisted,
                 accepted, stamps, ncalls>>

\* Writer::remove_topic
Cnt_remove_topic(name) ==
  /\ impl = Cnt /\ pc = "alive"
  /\ IF storage_ = NULL
     THEN /\ last' = Op("remove_topic", "not_open", <<>>, name, 0, FALSE)
          /\ UNCHANGED <<topics_, topic_metadata_, st_topics>>
     ELSE /\ topics_' = WithoutTopic(topics_, name)
          /\ topic_metadata_' = WithoutTopic(topic_metadata_, name)
          /\ st_topics' = st_topics \ {name}
          /\ last' = Op("remove_topic", "ok", <<"storage.remove_topic">>, name, 0, FALSE)
  /\ UNCHANGED <<impl, formats_differ,
                 pc, storage_, converter_, max_bagfile_size_, varsPoC, metadata_,
                 uri_, relative_file_paths_, message_count_, bagfile_counter_,
                 start_time_, end_time_, varsAgg, opened, deleted, persisted,
                 accepted, stamps, ncalls>>

\* Writer::split_bagfile_, given the topic_metadata of the registry as write()
\* left it, whether the factory could open the new storage and the
\* compression_success reported.  The topics created on the new storage are
\* the ones the registry's topic_metadata name.
split_bagfile_(topics, factoryOk, compression_success) ==
  LET current_uri == get_current_uri(storage_)
      nx == next_bagfile_uri_(uri_, bagfile_counter_)
      c0 == <<"factory.get_current_uri", "factory.open_read_write">>
      c1 == c0 \o [i \in 1..Cardinality(DOMAIN topics) |-> "storage.create_topic"]
  IN  IF ~factoryOk
      THEN [result |-> "storage_init", storage |-> NULL, uri |-> nx.uri,
            bagfile_counter |-> nx.bagfile_counter,
            files |-> relative_file_paths_, st_topics |-> {}, calls |-> c0]
      ELSE [result |-> "ok", storage |-> Handle(nx.uri), uri |-> nx.uri,
            bagfile_counter |-> nx.bagfile_counter,
            files |-> Append(relative_file_paths_,
                             IF compression_success THEN compress_uri(current_uri)
                             ELSE nx.uri),
            st_topics |-> {topics[t] : t \in DOMAIN topics},
            calls |-> c1 \o <<IF compression_success THEN "compressor.compress_uri"
                               ELSE "compressor.compress_uri (failed)">>]

\* Writer::write
Cnt_write(name, time_stamp, size, factoryOk, compression_success, wfail) ==
  /\ impl = Cnt /\ pc = "alive"
  /\ IF storage_ = NULL
     THEN /\ last' = Op("write", "not_open", <<>>, name, 0, FALSE)
          /\ UNCHANGED <<storage_, topics_, topic_metadata_, relative_file_paths_,
                         message_count_, bagfile_counter_, start_time_, end_time_, opened, st_topics,
                         accepted, stamps, ncalls>>
     ELSE
       LET topics == Inc(WithTopic(topics_, name), name)
           metas == WithMetadata(topic_metadata_, name, DefaultTopicMetadata)
           split == should_split_bagfile(size)
           sp == split_bagfile_(metas, factoryOk, compression_success)
           c0 == <<"storage.get_bagfile_size">>
           wt == write_tail(FALSE, wfail)
       IN  /\ ncalls < MaxCalls
           /\ ncalls' = ncalls + 1
           /\ topics_' = topics
           /\ topic_metadata_' = metas
           /\ message_count_' = message_count_ + 1
           /\ IF split
              THEN /\ storage_' = sp.storage
                   /\ opened' = Append(opened, sp.uri)
                   /\ st_topics' = sp.st_topics
                   /\ bagfile_counter_' = sp.bagfile_counter
                   /\ relative_file_paths_' = sp.files
              ELSE UNCHANGED <<storage_, opened, st_topics, bagfile_counter_,
                               relative_file_paths_>>
           /\ IF split /\ sp.result # "ok"
              THEN /\ UNCHANGED <<start_time_, end_time_, accepted, stamps>>
                   /\ last' = Op("write", sp.result, c0 \o sp.calls, name, size, TRUE)
              ELSE /\ start_time_' = Min(start_time_, time_stamp)
                   /\ end_time_' = Max(end_time_, time_stamp)
                   /\ accepted' = IF wt.result = "ok" THEN accepted + 1 ELSE accepted
                   /\ stamps' = IF wt.result = "ok" THEN stamps \cup {time_stamp} ELSE stamps
                   /\ last' = Op("write", wt.result,
                                 c0 \o (IF split THEN sp.calls ELSE <<>>) \o wt.calls,
                                 name, size, split)
  /\ UNCHANGED <<impl, formats_differ,
                 pc, converter_, max_bagfile_size_, varsPoC, metadata_, uri_,
                 varsAgg, deleted, persisted>>

\* Writer::generate_metadata_ (bag_size, read from the disk, is left out)
generate_metadata_ ==
  IF storage_ # NULL
  THEN [relative_file_paths |-> relative_file_paths_,
        starting_time |-> start_time_,
        duration |-> Wrap(end_time_ - start_time_),
        message_count |-> message_count_,
        topics_with_message_count |-> topics_,
        compression_format |-> "SNAPPY",
        compression_mode |-> ""]
  ELSE EmptyMetadata

\* Writer::~Writer
Cnt_destroy ==
  /\ impl = Cnt /\ pc = "alive"
  /\ pc' = "destroyed"
  /\ storage_' = NULL
  /\ IF uri_ # "" /\ storage_ # NULL
     THEN /\ persisted' = [written |-> TRUE, metadata |-> generate_metadata_]
          /\ last' = Op("destroy", "ok",
                        <<"metadata_io.write_metadata">> \o reset_storage_then_factory,
                        "", 0, FALSE)
     ELSE /\ persisted' = persisted
          /\ last' = Op("destroy", "ok", reset_storage_then_factory,
                        "", 0, FALSE)
  /\ UNCHANGED <<impl, formats_differ,
                 converter_, max_bagfile_size_, varsPoC, metadata_, uri_, varsCnt,
                 varsAgg, opened, st_topics, deleted, accepted, stamps, ncalls>>

----------------------------------------------------------------------------
\* Revision Agg (src/rosbag2/src/rosbag2/compression_options.cpp, from line 65).

\* The storage after open_read_write(uri): one empty file.
NewBackend == [file |-> 0, count |-> 0, topics |-> EmptyMap, start |-> 0, end |-> 0]

TopicInformation(name, count) == [name |-> name, message_count |-> count]

RECURSIVE SetToSeq(_)
SetToSeq(S) ==
  IF S = {} THEN <<>>
  ELSE LET x == CHOOSE y \in S : TRUE IN <<x>> \o SetToSeq(S \ {x})

\* storage_->get_metadata(): the metadata of the file storage b is writing.
\* The storage counts the messages of the topics it holds, so its total is the
\* sum of its per-topic counts.
get_metadata(b) ==
  [relative_file_paths |-> <<Path(BagUri, b.file, <<"db3">>)>>,
   starting_time |-> b.start,
   duration |-> b.end - b.start,
   message_count |-> SumCounts(b.topics),
   topics_with_message_count |->
     SetToSeq({TopicInformation(t, b.topics[t]) : t \in DOMAIN b.topics}),
   compression_format |-> "", compression_mode |-> ""]

\* storage_->split_database(): the next file, with the same topics and no message.
split_database(b) ==
  [file |-> b.file + 1, count |-> 0,
   topics |-> [t \in DOMAIN b.topics |-> 0], start |-> 0, end |-> 0]

\* Writer::should_split_database
should_split_database(size) ==
  (max_bagfile_size_ # MAX_BAGFILE_SIZE_NO_SPLIT) /\ (size > max_bagfile_size_)

\* Writer::initialize_metadata_
initialize_metadata_(md) ==
  [md EXCEPT !.message_count = 0, !.topics_with_message_count = <<>>,
             !.starting_time = TimeMaxValue, !.duration = 0]

\* topic_already_exists: whether the list holds the topic to find.  The source
\* hands ti_to_find itself to std::find_if where its comment announces a
\* predicate; a topic is identified by its name.
topic_already_exists(ti_to_find, topic_list) ==
  \E i \in 1..Len(topic_list) : topic_list[i].name = ti_to_find.name

\* get_topics_no_duplicates without its test: every new topic is returned.
get_topics_unfiltered(prev_topics, new_topics) == new_topics

\* get_topics_no_duplicates: the new topics the previous list does not hold.
get_topics_no_duplicates(prev_topics, new_topics) ==
  SelectSeq(new_topics, LAMBDA ti : ~topic_already_exists(ti, prev_topics))

\* Writer::aggregate_metadata_ without the test for the unset starting time.
aggregate_metadata_unguarded(md, metadata) ==
  [md EXCEPT
     !.relative_file_paths = metadata.relative_file_paths,
     !.message_count = @ + metadata.message_count,
     !.starting_time = IF @ > metadata.starting_time
                       THEN metadata.starting_time ELSE @,
     !.duration = @ + metadata.duration,
     !.topics_with_message_count =
        @ \o get_topics_no_duplicates(@, metadata.topics_with_message_count)]

\* Writer::aggregate_metadata_ (bag_size is left out)
aggregate_metadata_(md, metadata) ==
  [md EXCEPT
     !.relative_file_paths = metadata.relative_file_paths,
     !.message_count = @ + metadata.message_count,
     !.starting_time = IF @ > metadata.starting_time /\ metadata.starting_time # 0
                       THEN metadata.starting_time ELSE @,
     !.duration = @ + metadata.duration,
     !.topics_with_message_count =
        @ \o get_topics_no_duplicates(@, metadata.topics_with_message_count)]

\* Writer::open
Agg_open(max_size, formatsDiffer, factoryOk) ==
  /\ impl = Agg /\ pc = "alive" /\ ncalls < MaxCalls
  /\ ncalls' = ncalls + 1
  /\ converter_' = (converter_ \/ formatsDiffer)
  /\ opened' = <<Path(BagUri, 0, <<>>)>>
  /\ IF factoryOk
     THEN /\ storage_' = Handle(Path(BagUri, 0, <<>>))
          /\ backend' = NewBackend
          /\ uri_' = BagUri
          /\ max_bagfile_size_' = max_size
          /\ metadata_' = initialize_metadata_(metadata_)
          /\ last' = Op("open", "ok", <<"factory.open_read_write">>, "", 0, FALSE)
     ELSE /\ storage_' = NULL
          /\ UNCHANGED <<backend, uri_, max_bagfile_size_, metadata_>>
          /\ last' = Op("open", "storage_init", <<"factory.open_read_write">>, "", 0, FALSE)
  /\ st_topics' = {}
  /\ accepted' = 0
  /\ stamps' = {}
  /\ formats_differ' = formatsDiffer
  /\ UNCHANGED <<impl, pc, varsPoC, varsCnt, deleted, persisted>>

\* Writer::create_topic
Agg_create_topic(name) ==
  /\ impl = Agg /\ pc = "alive"
  /\ IF storage_ = NULL
     THEN /\ last' = Op("create_topic", "not_open", <<>>, name, 0, FALSE)
          /\ UNCHANGED <<backend, st_topics>>
     ELSE /\ backend' = [backend EXCEPT !.topics = WithTopic(@, name)]
          /\ st_topics' = st_topics \cup {name}
          /\ last' = Op("create_topic", "ok",
                        (IF converter_ THEN <<"converter.add_topic">> ELSE <<>>)
                          \o <<"storage.create_topic">>, name, 0, FALSE)
  /\ UNCHANGED <<impl, formats_differ,
                 pc, storage_, converter_, max_bagfile_size_, varsPoC, metadata_,
                 uri_, varsCnt, opened, deleted, persisted, accepted, stamps, ncalls>>

\* Writer::remove_topic
Agg_remove_topic(name) ==
  /\ impl = Agg /\ pc = "alive"
  /\ IF storage_ = NULL
     THEN /\ last' = Op("remove_topic", "not_open", <<>>, name, 0, FALSE)
          /\ UNCHANGED <<backend, st_topics>>
     ELSE /\ backend' = [backend EXCEPT !.topics = WithoutTopic(@, name)]
          /\ st_topics' = st_topics \ {name}
          /\ last' = Op("remove_topic", "ok", <<"storage.remove_topic">>, name, 0, FALSE)
  /\ UNCHANGED <<impl, formats_differ,
                 pc, storage_, converter_, max_bagfile_size_, varsPoC, metadata_,
                 uri_, varsCnt, opened, deleted, persisted, accepted, stamps, ncalls>>

\* storage_->write(message): the storage counts the message in its file; it
\* refuses a message of a topic that was not created on it.
backend_write(name, time_stamp) ==
  [backend EXCEPT
     !.count = @ + 1,
     !.topics = Inc(@, name),
     !.start = IF backend.count = 0 THEN time_stamp ELSE Min(@, time_stamp),
     !.end = IF backend.count = 0 THEN time_stamp ELSE Max(@, time_stamp)]

\* Writer::write
Agg_write(name, time_stamp, size, wfail) ==
  /\ impl = Agg /\ pc = "alive"
  /\ IF storage_ = NULL
     THEN /\ last' = Op("write", "not_open", <<>>, name, 0, FALSE)
          /\ UNCHANGED <<backend, metadata_, accepted, stamps, ncalls>>
     ELSE
       LET wt == write_tail(FALSE, IF name \in DOMAIN backend.topics THEN wfail
                                   ELSE "write")
           split == should_split_database(size)
           c1 == <<"storage.get_current_bagfile_size">>
           c2 == <<"storage.get_metadata", "storage.split_database">>
           written == backend_write(name, time_stamp)
       IN  /\ ncalls < MaxCalls
           /\ ncalls' = ncalls + 1
           /\ IF wt.result # "ok"
              THEN /\ last' = Op("write", wt.result, wt.calls, name, 0, FALSE)
                   /\ UNCHANGED <<backend, metadata_, accepted, stamps>>
              ELSE /\ accepted' = accepted + 1
                   /\ stamps' = stamps \cup {time_stamp}
                   /\ IF split
                      THEN /\ metadata_' =
                                aggregate_metadata_(metadata_, get_metadata(written))
                           /\ backend' = split_database(written)
                      ELSE /\ backend' = written
                           /\ UNCHANGED metadata_
                   /\ last' = Op("write", "ok",
                                 wt.calls \o c1 \o (IF split THEN c2 ELSE <<>>),
                                 name, size, split)
  /\ UNCHANGED <<impl, formats_differ,
                 pc, storage_, converter_, max_bagfile_size_, varsPoC, uri_,
                 varsCnt, opened, st_topics, deleted, persisted>>

\* Writer::~Writer.  With uri_ set and storage_ null, get_metadata() is read
\* through a null pointer: the process crashes, or the read yields some
\* metadata (nullOutcome).
Agg_destroy(nullOutcome) ==
  /\ impl = Agg /\ pc = "alive"
  /\ IF uri_ # "" /\ storage_ = NULL /\ nullOutcome = "crash"
     THEN /\ pc' = "crashed"
          /\ last' = Op("destroy", "crash", <<"storage.get_metadata">>, "", 0, FALSE)
          /\ UNCHANGED <<storage_, metadata_, persisted>>
     ELSE /\ pc' = "destroyed"
          /\ storage_' = NULL
          /\ IF uri_ # ""
             THEN /\ metadata_' =
                       aggregate_metadata_(metadata_,
                         IF storage_ = NULL
                         THEN [EmptyMetadata EXCEPT !.topics_with_message_count = <<>>]
                         ELSE get_metadata(backend))
                  /\ persisted' = [written |-> TRUE, metadata |-> metadata_']
                  /\ last' = Op("destroy", "ok",
                                <<"storage.get_metadata", "metadata_io.write_metadata">>
                                  \o reset_storage_then_factory, "", 0, FALSE)
             ELSE /\ UNCHANGED <<metadata_, persisted>>
                  /\ last' = Op("destroy", "ok", reset_storage_then_factory,
                                "", 0, FALSE)
  /\ UNCHANGED <<impl, formats_differ,
                 converter_, max_bagfile_size_, varsPoC, uri_, varsCnt, varsAgg,
                 opened, st_topics, deleted, accepted, stamps, ncalls>>

\* The state after Writer::Writer.
Init ==
  /\ impl \in Impls
  /\ pc = "alive"
  /\ storage_ = NULL
  /\ converter_ = FALSE
  /\ max_bagfile_size_ = MAX_BAGFILE_SIZE_NO_SPLIT
  /\ base_folder_ = ""
  /\ compression_options_ = ModeNONE
  /\ topics_names_to_info_ = EmptyMap
  /\ metadata_ = EmptyMetadata
  /\ uri_ = ""
  /\ topics_ = EmptyMap
  /\ topic_metadata_ = EmptyMap
  /\ relative_file_paths_ = <<>>
  /\ message_count_ = 0
  /\ bagfile_counter_ = 0
  /\ start_time_ = TimeMaxValue
  /\ end_time_ = TimeMinValue
  /\ backend = NewBackend
  /\ opened = <<>>
  /\ st_topics = {}
  /\ deleted = {}
  /\ persisted = NotPersisted
  /\ accepted = 0
  /\ stamps = {}
  /\ formats_differ = FALSE
  /\ ncalls = 0
  /\ last = NoOp

\* The topics of the messages given to write(): messages come on one topic;
\* the other topic is registered and removed, and receives no message.
MessageTopics == {"/a"}

\* A write() call of each revision, its inputs drawn where the handler reads them.
PoC_write_call ==
  \E t \in MessageTopics :
    LET checked == storage_ # NULL /\ t \in DOMAIN topics_names_to_info_ IN
    \E sz \in SizesRead(checked) :
    LET split == checked /\ should_split_bagfile(sz) IN
    \E ok \in Answers(split) :
    \E cok \in Answers(split /\ ok /\ compression_options_ = ModeFILE) :
    LET reached == checked /\ ok /\ cok IN
    \E ts \in TimesRead(reached) :
    \E wf \in FailuresRead(reached, converter_, compression_options_ = ModeMESSAGE) :
      PoC_write(t, ts, sz, ok, cok, wf)

Cnt_write_call ==
  \E t \in MessageTopics :
    LET checked == storage_ # NULL IN
    \E sz \in SizesRead(checked) :
    LET split == checked /\ should_split_bagfile(sz) IN
    \E ok \in Answers(split) :
    \E cok \in Answers(split /\ ok) :
    LET reached == checked /\ ok IN
    \E ts \in TimesRead(reached) :
    \E wf \in FailuresRead(reached, converter_, FALSE) :
      Cnt_write(t, ts, sz, ok, cok, wf)

Agg_write_call ==
  \E t \in MessageTopics :
    LET reached == storage_ # NULL /\ t \in DOMAIN backend.topics IN
    \E wf \in FailuresRead(reached, converter_, FALSE) :
    \E sz \in SizesRead(reached /\ wf = "none") :
    \E ts \in TimesRead(reached /\ wf = "none") :
      Agg_write(t, ts, sz, wf)

\* The destruction of the Writer.
PoC_destroy_call ==
  \E no \in NullOutcomesRead(storage_ = NULL) :
  \E cok \in Answers(compression_options_ = ModeFILE
                      /\ (storage_ # NULL \/ no = "garbage")) :
    PoC_destroy(cok, no)

Agg_destroy_call ==
  \E no \in NullOutcomesRead(uri_ # "" /\ storage_ = NULL) : Agg_destroy(no)

Next ==
  \/ \E o \in OpenOptions, ok \in BOOLEAN :
       PoC_open(o.max_bagfile_size, o.formatsDiffer, o.mode, ok)
  \/ \E t \in Topics : PoC_create_topic(t)
  \/ \E t \in Topics : PoC_remove_topic(t)
  \/ PoC_write_call
  \/ PoC_destroy_call
  \/ \E o \in OpenOptions, ok \in BOOLEAN :
       Cnt_open(o.max_bagfile_size, o.formatsDiffer, ok)
  \/ \E t \in Topics : Cnt_create_topic(t)
  \/ \E t \in Topics : Cnt_remove_topic(t)
  \/ Cnt_write_call
  \/ Cnt_destroy
  \/ \E o \in OpenOptions, ok \in BOOLEAN :
       Agg_open(o.max_bagfile_size, o.formatsDiffer, ok)
  \/ \E t \in Topics : Agg_create_topic(t)
  \/ \E t \in Topics : Agg_remove_topic(t)
  \/ Agg_write_call
  \/ Agg_destroy_call

Spec == Init /\ [][Next]_vars

----------------------------------------------------------------------------
\* The conversion between compression modes and their names
\* (src/rosbag2/src/rosbag2/compression_options.cpp, lines 27-61), on its own:
\* a mode is parsed from a string into compression_options_, and a mode is
\* written as a string into metadata_.compression_mode.

\* The strings given to compression_mode_from_string: the three names, the
\* empty string, and strings that are no name (other case, blanks, others).
ModeStrings ==
  {"", "NONE", "FILE", "MESSAGE", "none", "file", "message", "File", "FILE ",
   " NONE", "MESSAGES", "ZSTD"}

\* compression_mode_from_string that rejects a string that is no name.
compression_mode_from_string_strict(compression_mode) ==
  IF compression_mode = "" \/ compression_mode = "NONE"
  THEN [result |-> "ok", mode |-> ModeNONE, calls |-> <<>>]
  ELSE IF compression_mode = "FILE"
  THEN [result |-> "ok", mode |-> ModeFILE, calls |-> <<>>]
  ELSE IF compression_mode = "MESSAGE"
  THEN [result |-> "ok", mode |-> ModeMESSAGE, calls |-> <<>>]
  ELSE [result |-> "invalid_argument", mode |-> ModeNONE, calls |-> <<>>]

\* compression_mode_from_string that compares with the names in lower case.
compression_mode_from_string_lower(compression_mode) ==
  IF compression_mode = "" \/ compression_mode = "none"
  THEN [result |-> "ok", mode |-> ModeNONE, calls |-> <<>>]
  ELSE IF compression_mode = "file"
  THEN [result |-> "ok", mode |-> ModeFILE, calls |-> <<>>]
  ELSE IF compression_mode = "message"
  THEN [result |-> "ok", mode |-> ModeMESSAGE, calls |-> <<>>]
  ELSE [result |-> "ok", mode |-> ModeNONE, calls |-> <<"ROSBAG2_LOG_ERROR_STREAM">>]

\* compression_mode_from_string: how it returned, the mode returned and the
\* calls made.
compression_mode_from_string(compression_mode) ==
  IF compression_mode = "" \/ compression_mode = "NONE"
  THEN [result |-> "ok", mode |-> ModeNONE, calls |-> <<>>]
  ELSE IF compression_mode = "FILE"
  THEN [result |-> "ok", mode |-> ModeFILE, calls |-> <<>>]
  ELSE IF compression_mode = "MESSAGE"
  THEN [result |-> "ok", mode |-> ModeMESSAGE, calls |-> <<>>]
  ELSE [result |-> "ok", mode |-> ModeNONE, calls |-> <<"ROSBAG2_LOG_ERROR_STREAM">>]

\* The record of a call of one of the two conversions.
ModeCall(name, input, result, output, calls) ==
  [op |-> name, input |-> input, result |-> result, output |-> output,
   calls |-> calls]

\* What the conversions leave alone.
varsNotModes ==
  <<impl, pc, storage_, converter_, max_bagfile_size_, base_folder_,
    topics_names_to_info_, uri_, varsCnt, varsAgg, opened, st_topics, deleted,
    persisted, accepted, stamps, formats_differ>>

\* A CompressionOptions is built from the string a caller gives.
ModeFromString(s) ==
  LET r == compression_mode_from_string(s) IN
  /\ ncalls < MaxCalls
  /\ ncalls' = ncalls + 1
  /\ compression_options_' = IF r.result = "ok" THEN r.mode ELSE compression_options_
  /\ last' = ModeCall("compression_mode_from_string", s, r.result, r.mode, r.calls)
  /\ UNCHANGED <<metadata_, varsNotModes>>

\* The name of a mode is written into a metadata.
ModeToString(m) ==
  /\ ncalls < MaxCalls
  /\ ncalls' = ncalls + 1
  /\ metadata_' = [metadata_ EXCEPT !.compression_mode = compression_mode_to_string(m)]
  /\ last' = ModeCall("compression_mode_to_string", m, "ok",
                      compression_mode_to_string(m), <<>>)
  /\ UNCHANGED <<compression_options_, varsNotModes>>

ModesInit == Init /\ impl = PoC

ModesNext ==
  \/ \E s \in ModeStrings : ModeFromString(s)
  \/ \E m \in Modes : ModeToString(m)

SpecModes == ModesInit /\ [][ModesNext]_vars

----------------------------------------------------------------------------
\* What the properties read.

\* The topic registry: topic name -> message count.  Revision Agg keeps none;
\* the topics it knows are the ones created on its storage.
Registry ==
  CASE impl = PoC -> topics_names_to_info_
    [] impl = Cnt -> topics_
    [] OTHER -> backend.topics

\* The file list of the metadata being built.
Files == IF impl = Cnt THEN relative_file_paths_ ELSE metadata_.relative_file_paths

\* Everything the Writer and its collaborators hold (all but the record of the
\* last call and the model's call budget).
WriterState ==
  <<storage_, converter_, max_bagfile_size_, base_folder_, compression_options_,
    topics_names_to_info_, metadata_, uri_, topics_, topic_metadata_,
    relative_file_paths_, message_count_, bagfile_counter_, start_time_, end_time_, backend, opened,
    st_topics, deleted, persisted, accepted, stamps, formats_differ>>

Called(op, call) == \E i \in 1..Len(op.calls) : op.calls[i] = call

RECURSIVE SumSeq(_)
SumSeq(q) == IF q = <<>> THEN 0 ELSE Head(q).message_count + SumSeq(Tail(q))

\* The sum of the per-topic message counts of a metadata.
TopicCountSum(md) ==
  IF impl = Agg THEN SumSeq(md.topics_with_message_count)
  ELSE SumCounts(md.topics_with_message_count)

\* The Writer holds no storage after an open() that failed.
ClosedAfterFailedOpen == pc = "alive" /\ storage_ = NULL /\ Len(opened) = 1

----------------------------------------------------------------------------
\* C1: in the revisions that keep a topic registry, a write() on an open
\* session whose topic is not registered fails with an error, calls no
\* collaborator and leaves the whole state as it was.
C1_UnknownTopicWriteRejected ==
  [][ (/\ impl \in {PoC, Cnt} /\ pc = "alive" /\ storage_ # NULL
       /\ last'.op = "write" /\ last'.topic \notin DOMAIN Registry)
      => (/\ last'.result # "ok"
          /\ ~Called(last', "storage.write")
          /\ UNCHANGED WriterState) ]_vars

\* C2: while storage_ is null, create_topic, remove_topic and write fail with
\* the not-open error, call no collaborator and change nothing.
C2_ClosedRejects ==
  [][ (/\ pc = "alive" /\ storage_ = NULL
       /\ last'.op \in {"create_topic", "remove_topic", "write"})
      => (/\ last'.result = "not_open"
          /\ last'.calls = <<>>
          /\ UNCHANGED WriterState) ]_vars

\* C2 witness: an operation was refused as not open after an open() that failed.
C2_Witness ==
  /\ ClosedAfterFailedOpen
  /\ last.op \in {"create_topic", "remove_topic", "write"}
  /\ last.result = "not_open"

\* C3: with no split size configured no write() rolls over, and the metadata
\* written at close counts the accepted writes and lists exactly one file.
C3_NoSplitSizeNoRollover ==
  /\ (last.op = "write" /\ max_bagfile_size_ = MAX_BAGFILE_SIZE_NO_SPLIT) => ~last.split
  /\ (persisted.written /\ max_bagfile_size_ = MAX_BAGFILE_SIZE_NO_SPLIT)
       => /\ persisted.metadata.message_count = accepted
          /\ Len(persisted.metadata.relative_file_paths) = 1

\* C4: in the metadata written at close the per-topic message counts sum to
\* the total message count.
C4_TopicCountsSumToTotal ==
  persisted.written
    => TopicCountSum(persisted.metadata) = persisted.metadata.message_count

\* C5: in the revisions that keep a topic registry, create_topic with a name
\* that is registered leaves the registry (entries and counters) as it was and
\* does not call the storage's create_topic.
C5_CreateTopicIdempotent ==
  [][ (/\ impl \in {PoC, Cnt} /\ pc = "alive" /\ storage_ # NULL
       /\ last'.op = "create_topic" /\ last'.topic \in DOMAIN Registry)
      => (/\ Registry' = Registry
          /\ ~Called(last', "storage.create_topic")) ]_vars

\* C6: a write() that takes the rollover decision rolls over exactly when a
\* split size is configured and the size the storage reports is greater.
C6_SplitDecision ==
  (/\ last.op = "write"
   /\ \/ Called(last, "storage.get_bagfile_size")
      \/ Called(last, "storage.get_current_bagfile_size"))
  => (last.split <=> (/\ max_bagfile_size_ # MAX_BAGFILE_SIZE_NO_SPLIT
                      /\ last.size > max_bagfile_size_))

\* C7: the uris given to open_read_write in a session start with file index 0
\* and carry strictly increasing file indices.
C7_FileIndicesIncrease ==
  opened # <<>>
    => /\ opened[1].suffix = 0
       /\ \A i, j \in 1..Len(opened) : i < j => opened[i].suffix < opened[j].suffix

\* C8: the file list never holds a path twice, neither while the session runs
\* nor in the metadata written at close.
C8_FileListNoDuplicates ==
  /\ NoDuplicates(Files)
  /\ persisted.written => NoDuplicates(persisted.metadata.relative_file_paths)

\* C9: when compress_uri fails during a rollover the path of the file just
\* closed is appended to the file list and that file is not deleted; a file is
\* deleted only by a step whose compress_uri succeeded.
C9_CompressionFailureKeepsOriginal ==
  [][ /\ (last'.op = "write" /\ Called(last', "compressor.compress_uri (failed)"))
         => /\ Files' = Append(Files, get_relative_path(storage_))
            /\ get_relative_path(storage_) \notin deleted'
      /\ (deleted' # deleted) => Called(last', "compressor.compress_uri") ]_vars

\* C10: after an open() that failed the Writer holds no storage, a write() is
\* refused as not open, and the destructor completes without writing metadata.
C10_FailedOpenLeavesClosed ==
  [][ /\ (last'.op = "open" /\ last'.result = "storage_init") => storage_' = NULL
      /\ (ClosedAfterFailedOpen /\ last'.op = "write") => last'.result = "not_open"
      /\ (ClosedAfterFailedOpen /\ last'.op = "destroy")
           => (pc' = "destroyed" /\ persisted' = NotPersisted) ]_vars

----------------------------------------------------------------------------
\* How often an operation made a call.
CountCalls(op, call) == Cardinality({i \in 1..Len(op.calls) : op.calls[i] = call})

\* A session was opened and not closed: the Writer holds a storage, or it lost
\* it in a rollover (a failed open() leaves one uri in opened and no storage).
SessionOpened == storage_ # NULL \/ Len(opened) >= 2

\* The session's total message count as the Writer keeps it.
SessionTotal ==
  CASE impl = PoC -> SumCounts(topics_names_to_info_)
    [] impl = Cnt -> message_count_
    [] OTHER -> metadata_.message_count + SumCounts(backend.topics)

\* The earliest time stamp as the Writer keeps it.
EarliestTime == IF impl = Cnt THEN start_time_ ELSE metadata_.starting_time

\* The calls a rollover consists of.
RolloverCalls ==
  {"factory.open_read_write", "storage.split_database", "storage.get_metadata",
   "storage.create_topic", "compressor.compress_uri",
   "compressor.compress_uri (failed)", "std::remove"}

MinOf(S) == CHOOSE x \in S : \A y \in S : x <= y
MaxOf(S) == CHOOSE x \in S : \A y \in S : y <= x

\* C11: the destruction of a Writer that holds no storage completes, calls
\* neither the storage nor the compressor, leaves the file list as it is and
\* writes no metadata.
C11_TeardownWithoutSessionIsNoOp ==
  [][ (pc = "alive" /\ storage_ = NULL /\ last'.op = "destroy")
      => (/\ pc' = "destroyed"
          /\ ~Called(last', "storage.get_relative_path")
          /\ ~Called(last', "storage.get_metadata")
          /\ ~Called(last', "compressor.compress_uri")
          /\ ~Called(last', "compressor.compress_uri (failed)")
          /\ Files' = Files
          /\ persisted' = persisted) ]_vars

\* C12: no operation but the destruction calls write_metadata, and the
\* destruction of a Writer whose session was opened calls it exactly once.
C12_MetadataWrittenOnceAtClose ==
  [][ /\ (last'.op # "destroy")
         => (~Called(last', "metadata_io.write_metadata") /\ persisted' = persisted)
      /\ (pc = "alive" /\ SessionOpened /\ last'.op = "destroy")
         => (/\ CountCalls(last', "metadata_io.write_metadata") = 1
             /\ persisted'.written) ]_vars

\* C13: an accepted write() hands the message to the storage exactly once, and
\* when it rolls over every call of the rollover comes before that hand-over.
C13_RolloverBeforeWrite ==
  (last.op = "write" /\ last.result = "ok")
  => /\ CountCalls(last, "storage.write") = 1
     /\ last.split =>
          \A i, j \in 1..Len(last.calls) :
            (last.calls[i] \in RolloverCalls /\ last.calls[j] = "storage.write")
              => i < j

\* C14: a write() whose rollover cannot open the new storage fails, hands the
\* message to no storage, and leaves the Writer holding the storage it held.
C14_RolloverOpenFailureKeepsHandle ==
  [][ (last'.op = "write" /\ last'.split /\ last'.result = "storage_init")
      => (/\ ~Called(last', "storage.write")
          /\ storage_' # NULL
          /\ storage_' = storage_) ]_vars

\* C15: in the revisions that keep a topic registry, an accepted write() adds
\* one to the counter of its topic and to the session total, a write() that
\* fails changes no counter and not the total, and no operation but open()
\* lowers a counter.
C15_CountersFollowAcceptedWrites ==
  [][ (impl \in {PoC, Cnt} /\ pc = "alive") =>
      /\ (last'.op = "write" /\ last'.result = "ok")
           => /\ last'.topic \in DOMAIN Registry'
              /\ Registry'[last'.topic] =
                   (IF last'.topic \in DOMAIN Registry THEN Registry[last'.topic]
                    ELSE 0) + 1
              /\ SessionTotal' = SessionTotal + 1
      /\ (last'.op = "write" /\ last'.result # "ok")
           => (Registry' = Registry /\ SessionTotal' = SessionTotal)
      /\ (last'.op # "open")
           => \A t \in DOMAIN Registry \cap DOMAIN Registry' :
                Registry'[t] >= Registry[t] ]_vars

\* C16: the metadata written at close has as starting time the least time
\* stamp of the messages the storage took in the session, and as duration the
\* greatest of them minus the least.
C16_StartAndDurationSpanTheSession ==
  (persisted.written /\ stamps # {})
  => /\ persisted.metadata.starting_time = MinOf(stamps)
     /\ persisted.metadata.duration = MaxOf(stamps) - MinOf(stamps)

\* C17: after an open() that succeeded the session total is 0, every topic
\* counter is 0, the earliest time is unset and the file opened has index 0.
C17_OpenResetsAccounting ==
  [][ (last'.op = "open" /\ last'.result = "ok")
      => (/\ SessionTotal' = 0
          /\ \A t \in DOMAIN Registry' : Registry'[t] = 0
          /\ EarliestTime' = TimeMaxValue
          /\ opened'[1].suffix = 0) ]_vars

\* C18: on an open session remove_topic of a name that is not registered
\* fails, does not call the storage's remove_topic and leaves the registry;
\* of a registered name it removes that entry and calls the storage once.
C18_RemoveTopicChecksRegistry ==
  [][ (pc = "alive" /\ storage_ # NULL /\ last'.op = "remove_topic") =>
      IF last'.topic \in DOMAIN Registry
      THEN /\ last'.result = "ok"
           /\ Registry' = WithoutTopic(Registry, last'.topic)
           /\ CountCalls(last', "storage.remove_topic") = 1
      ELSE /\ last'.result # "ok"
           /\ ~Called(last', "storage.remove_topic")
           /\ Registry' = Registry ]_vars

\* C19: in the revision that has compression modes (PoC), in MESSAGE mode
\* every message handed to the storage went through compress_bag_message_data
\* right before, after its conversion, and no operation calls compress_uri;
\* in the modes NONE and FILE no operation calls compress_bag_message_data.
C19_PerMessageModeCompression ==
  (impl = PoC) =>
    /\ (compression_options_ = ModeMESSAGE) =>
         /\ ~Called(last, "compressor.compress_uri")
         /\ ~Called(last, "compressor.compress_uri (failed)")
         /\ \A j \in 1..Len(last.calls) :
              (last.calls[j] = "storage.write") =>
                /\ j > 1
                /\ last.calls[j - 1] = "compressor.compress_bag_message_data"
                /\ converter_ => (j > 2 /\ last.calls[j - 2] = "converter.convert")
    /\ (compression_options_ # ModeMESSAGE) =>
         ~Called(last, "compressor.compress_bag_message_data")

\* C19 witness: in MESSAGE mode, with a converter, a write() rolled over and
\* its message was taken by the storage.
C19_Witness ==
  /\ impl = PoC /\ compression_options_ = ModeMESSAGE /\ converter_
  /\ last.op = "write" /\ last.result = "ok" /\ last.split

C21_StorageReleasedBeforeFactory ==
  [][ (impl \in {PoC, Cnt} /\ pc = "alive" /\ storage_ # NULL /\ last'.op = "destroy")
      => (/\ \A j \in 1..Len(last'.calls) :
                (last'.calls[j] = "factory.reset")
                  => \E i \in 1..(j - 1) : last'.calls[i] = "storage.reset"
          /\ (pc' = "destroyed")
                => /\ CountCalls(last', "storage.reset") = 1
                   /\ CountCalls(last', "factory.reset") = 1
                   /\ storage_' = NULL) ]_vars

\* C21 witness: a Writer that held a storage and had accepted a message was
\* destroyed, its metadata written and its storage and factory released.
C21_Witness ==
  /\ impl \in {PoC, Cnt} /\ pc = "destroyed" /\ last.op = "destroy"
  /\ accepted > 0 /\ Len(opened) = 1 /\ persisted.written
  /\ persisted.metadata.message_count > 0
  /\ Called(last, "factory.reset")

\* C22: after a write() whose rollover opened the new storage, the topics
\* created on that storage are exactly the topics registered: each under the
\* name it was registered with, none that was removed, none that was never
\* registered.
C22_RolloverRecreatesRegisteredTopics ==
  [][ (/\ impl \in {PoC, Cnt} /\ last'.op = "write" /\ last'.split
       /\ storage_' # NULL)
      => (/\ st_topics' = DOMAIN Registry'
          /\ CountCalls(last', "storage.create_topic")
               = Cardinality(DOMAIN Registry')) ]_vars

\* The path of the file the storage held by the Writer is writing.
ClosedFile ==
  IF impl = Cnt THEN get_current_uri(storage_) ELSE get_relative_path(storage_)

\* C23: a write() whose rollover succeeded appended exactly one entry to the
\* file list, the path of the file it closed: the compressed path where the
\* file was compressed (FILE mode; the revision without modes compresses every
\* file), its own path otherwise; never the path of the file it opened.
C23_RolloverAppendsClosedFile ==
  [][ (/\ impl \in {PoC, Cnt} /\ last'.op = "write" /\ last'.split
       /\ storage_' # NULL
       /\ (impl = PoC) => ~Called(last', "compressor.compress_uri (failed)"))
      => (/\ Files' = Append(Files,
                              IF \/ impl = PoC /\ compression_options_ = ModeFILE
                                 \/ impl = Cnt /\ Called(last', "compressor.compress_uri")
                              THEN compress_uri(ClosedFile) ELSE ClosedFile)
          /\ opened'[Len(opened')] \notin Range(Files')) ]_vars

\* C24: a write() that reaches the conversion step calls the converter
\* exactly when the input and output formats given to the open() that started
\* the session differ, whatever formats an earlier open() was given.
C24_ConverterFollowsSessionFormats ==
  (/\ last.op = "write"
   /\ (Called(last, "storage.write") \/ last.result = "convert_error"))
  => (Called(last, "converter.convert") <=> formats_differ)

\* C25: a merge of the storage's per-file metadata m into metadata_ (at a
\* rollover and at close) leaves a file list that is the previous list of
\* metadata_, in its order, followed by the paths of m it did not hold.
C25_MergeAppendsNewFiles ==
  [][ (/\ impl = Agg /\ storage_ # NULL
       /\ last'.op \in {"write", "destroy"}
       /\ Called(last', "storage.get_metadata"))
      => LET prev == metadata_.relative_file_paths
             m == get_metadata(backend).relative_file_paths
         IN  metadata_'.relative_file_paths
               = prev \o SelectSeq(m, LAMBDA path : path \notin Range(prev)) ]_vars

\* C26: a merge of the storage's per-file metadata m into metadata_ never
\* raises the starting time and sets it to nothing but a time stamp the
\* storage took; the merge at close sets it to the lesser of the two starting
\* times, and leaves it as it is when the starting time of m is the unset 0.
C26_MergeKeepsEarliestTime ==
  [][ (/\ impl = Agg /\ storage_ # NULL
       /\ last'.op \in {"write", "destroy"}
       /\ Called(last', "storage.get_metadata"))
      => LET M == metadata_.starting_time
             m == get_metadata(backend).starting_time
         IN  /\ metadata_'.starting_time <= M
             /\ metadata_'.starting_time \in {M} \cup stamps'
             /\ (last'.op = "destroy")
                  => metadata_'.starting_time = IF m = 0 THEN M ELSE Min(M, m) ]_vars

\* C26 witness: a session that rolled over was closed with messages in its
\* last file, the later time stamp merged first and the earlier one at close.
C26_Witness ==
  /\ impl = Agg /\ pc = "destroyed" /\ last.op = "destroy" /\ persisted.written
  /\ backend.file > 0 /\ backend.count > 0
  /\ backend.start < MaxTime /\ MaxTime \in stamps
  /\ metadata_.starting_time = backend.start

\* The topic names of a list of TopicInformation.
TopicNames(list) == {list[i].name : i \in 1..Len(list)}

C28_ModeFromString ==
  (last.op = "compression_mode_from_string")
  => /\ last.result = "ok"
     /\ last.output =
          CASE last.input \in {"", "NONE"} -> ModeNONE
            [] last.input = "FILE" -> ModeFILE
            [] last.input = "MESSAGE" -> ModeMESSAGE
            [] OTHER -> ModeNONE
     /\ compression_options_ = last.output

\* C28 witness: a name in lower case was parsed as NONE after a name had
\* been parsed as another mode.
C28_Witness ==
  /\ last.op = "compression_mode_from_string" /\ last.input = "file"
  /\ last.output = ModeNONE /\ ncalls > 1

\* C29: the string compression_mode_to_string returns for a mode is parsed by
\* compression_mode_from_string as that mode, and no two modes have the same
\* string.
C29_ModeStringRoundTrip ==
  /\ (last.op = "compression_mode_to_string")
       => /\ compression_mode_from_string(last.output).mode = last.input
          /\ compression_mode_from_string(last.output).result = "ok"
          /\ \A m \in Modes \ {last.input} :
                compression_mode_to_string(m) # last.output
  /\ (last.op = "compression_mode_from_string"
      /\ metadata_.compression_mode = last.input /\ last.input # "")
       => compression_mode_to_string(last.output) = last.input

\* C29 witness: the name written for MESSAGE was parsed.
C29_Witness ==
  /\ last.op = "compression_mode_from_string"
  /\ metadata_.compression_mode = last.input
  /\ last.output = ModeMESSAGE

\* C30: remove_topic leaves the session's total message count as it is, and
\* the total written at close is the number of write() calls the session
\* accepted, whichever topics were removed before.
C30_RemovedTopicsStillCounted ==
  [][ (impl \in {PoC, Cnt} /\ pc = "alive" /\ storage_ # NULL) =>
      /\ (last'.op = "remove_topic") => SessionTotal' = SessionTotal
      /\ (last'.op = "destroy" /\ persisted'.written)
           => persisted'.metadata.message_count = accepted ]_vars

====
